---- MODULE Spec2Model ----
(***************************************************************************)
(* JellRust: the site build pipeline (jellrust-core/src/site.rs) and the   *)
(* development server's watch / debounce / rebuild / reload loop           *)
(* (jellrust-server/src/lib.rs).                                           *)
(*                                                                         *)
(* Time is counted in ticks of 100 ms.  Paths are sequences of components, *)
(* as std::path::Path compares them.                                       *)
(***************************************************************************)
EXTENDS Integers, Sequences, FiniteSets, TLC

\* ------------------------------------------------------------------------
\* Bounds of the model
\* ------------------------------------------------------------------------
\* qualifying watcher events sent over the channel in one run
MaxEvents == 3
\* content versions a source file or _config.yml goes through
MaxVer == 2
\* builds started from the command line in one run of the build pipeline
MaxBuilds == 3
\* tokens of a permalink or of a permalink pattern
MaxUrlLen == 2
\* tokens of the text of a content file
MaxTextLen == 6
MaxPathLen == 3
MaxListLen == 2
MaxSegments == 4
MaxHtmlLen == 4

\* ------------------------------------------------------------------------
\* Program constants
\* ------------------------------------------------------------------------
DEBOUNCE_DURATION_MS == 300

\* the debounce window in ticks of 100 ms
WindowTicks == DEBOUNCE_DURATION_MS \div 100

\* ------------------------------------------------------------------------
\* The source tree of the model
\* ------------------------------------------------------------------------
PostFiles == {"p1", "p2"}
DraftFiles == {"d1"}
PageFiles == {"g1"}
AssetFiles == {"a1"}
Files == PostFiles \cup DraftFiles \cup PageFiles \cup AssetFiles
LayoutNames == {"default", "base", "post"}
Pollers == {"h1", "h2"}

Absent == [present |-> FALSE, ver |-> 0, published |-> TRUE]
NoFile == [item |-> "none", ver |-> 0, cfg |-> 0, posts |-> <<>>, chain |-> <<>>]

Min(a, b) == IF a < b THEN a ELSE b

\* the day number encoded in the name of each post file of the model:
\* p1 = 2024-01-01-a.md, p2 = 2024-03-01-b.md, d1 = 2024-03-01-c.md
parse_date_from_filename(f) ==
  CASE f = "p1" -> 1
    [] f = "p2" -> 3
    [] f = "d1" -> 3
    [] OTHER -> 0

VARIABLES
  \* ---- the file system
  src,            \* source files: Files -> [present, ver, published]
  layouts,        \* _layouts/<name>.html: "absent", "none" (no parent) or the parent's name
  diskConfig,     \* version of <source>/_config.yml on disk
  dest,           \* output files under the destination, keyed by the item they belong to
  malformed,      \* source files whose metadata block does not parse
  nested,         \* output files written for pages that were scanned under the destination
  \* ---- one SiteBuilder::build call
  bpc,            \* the step build() is about to run
  builderConfig,  \* SiteBuilder.config
  include_drafts, \* SiteBuilder.include_drafts
  site,           \* the Site being assembled: [posts, pages]
  idx,            \* position of the render loop
  written,        \* output files written by the build in progress
  steps,          \* steps the build in progress has completed, in order
  lastResult,     \* result of the last build that returned
  lastGood,       \* the destination as the last successful build left it
  dirty,          \* output files written since the last successful build returned
  nBuilds,        \* builds started from the command line
  \* ---- the dev server
  mode,           \* "serve" when DevServer::run has set up the watcher, "build" otherwise
  source,         \* the source root as it was passed to the server
  destination,    \* the canonicalized destination captured by the watcher callback
  serverConfig,   \* DevServer.config
  exclude,        \* Config.exclude, the patterns of the exclude list
  include,        \* Config.include
  permalink,      \* for each source file, the output that its URL names
  pc,             \* position of the debounce task (handle_file_changes)
  chan,           \* messages queued in the unbounded channel
  closed,         \* the sender (the watcher) has been dropped
  timer,          \* ticks since the pending timeout was armed
  quiet,          \* ticks since the last qualifying event was sent
  sent,           \* qualifying events sent so far
  lastEvt,        \* the last raw watcher event and what the callback did with it
  reload_flag,    \* the shared reload flag
  lock,           \* holder of the flag's lock
  ppc,            \* position of each /__reload__ handler
  should_reload,  \* each handler's local copy of the flag
  nSets,          \* times the flag was set
  served,         \* for each "reload" response, the number of flag-sets it saw
  nReload,        \* "reload" responses
  running,        \* rebuilds executing
  nRebuilds,      \* rebuilds started by the debounce task
  \* ---- one request, one function call
  resp,           \* the last response of the HTTP server to a GET
  arg,            \* the arguments of the function under examination
  ret             \* what it returned

fsVars == <<src, layouts, diskConfig, dest, malformed, nested>>
buildVars == <<bpc, builderConfig, include_drafts, site, idx, written, steps,
               lastResult, lastGood, dirty, nBuilds>>
loopVars == <<pc, chan, closed, timer, quiet, sent, lastEvt, running, nRebuilds>>
flagVars == <<reload_flag, lock, ppc, should_reload, nSets, served, nReload>>
setupVars == <<mode, source, destination, serverConfig, exclude, include, permalink>>
callVars == <<resp, arg, ret>>
vars == <<fsVars, buildVars, loopVars, flagVars, setupVars, callVars>>

\* ------------------------------------------------------------------------
\* Paths and the watcher's filter
\* ------------------------------------------------------------------------
\* "link" is a spelling of the source root through a symbolic link (or "..");
\* "site" is its canonical spelling.
Canon(path) == IF Len(path) > 0 /\ path[1] = "link" THEN <<"site">> \o Tail(path) ELSE path

\* Path::canonicalize fails for a path that does not exist
canonicalize_path(path, exists) == IF exists THEN Canon(path) ELSE path

starts_with(path, base) ==
  /\ Len(base) <= Len(path)
  /\ SubSeq(path, 1, Len(base)) = base

RelevantKinds == {"create", "modify", "remove"}
EventKinds == RelevantKinds \cup {"access"}

should_trigger_rebuild(event, dst) ==
  LET is_destination_event ==
        \E p \in event.paths : starts_with(canonicalize_path(p.raw, p.exists), dst)
      is_relevant_event == event.kind \in RelevantKinds
  IN  IF is_destination_event THEN FALSE
      ELSE IF ~is_relevant_event THEN FALSE
      ELSE TRUE

\* the destination the server is given: source.join("_site")
DestinationOf(root) == root \o <<"_site">>

\* where a reported path really lies
LiesUnderDestination(p) == starts_with(Canon(p.raw), Canon(DestinationOf(source)))

NoEvent == [relevant |-> FALSE, inDest |-> FALSE, forwarded |-> FALSE, seen |-> FALSE]

\* mpsc::channel(100) of watch_and_rebuild
CHANNEL_CAPACITY == 100

\* the watcher callback of setup_watcher: the new values of chan, sent,
\* quiet and lastEvt after the raw event
\* In `build --watch` the callback of watch_and_rebuild sends every event of
\* the watched source tree; a send into the full channel waits, and the
\* event it holds back is not counted.
Callback(event) ==
  LET fwd == mode = "serve" /\ ~closed /\ should_trigger_rebuild(event, destination)
      blocking_send ==
        /\ mode = "watch"
        /\ \E p \in event.paths : starts_with(Canon(p.raw), Canon(source))
        /\ chan < CHANNEL_CAPACITY
  IN  /\ chan' = IF fwd \/ blocking_send THEN chan + 1 ELSE chan
      /\ sent' = IF fwd THEN sent + 1 ELSE sent
      /\ quiet' = IF fwd THEN 0 ELSE quiet
      /\ lastEvt' = IF mode = "serve" /\ ~closed
                    THEN [relevant |-> event.kind \in RelevantKinds,
                          inDest |-> \E p \in event.paths : LiesUnderDestination(p),
                          forwarded |-> fwd, seen |-> TRUE]
                    ELSE lastEvt

SrcPath(name) == [raw |-> source \o <<name>>, exists |-> TRUE]
OutPath(name) ==
  [raw |-> (IF mode = "watch" THEN destination ELSE DestinationOf(source)) \o <<name>>,
   exists |-> TRUE]

\* ------------------------------------------------------------------------
\* Layout resolution (TemplateEngine::render_with_layout)
\* ------------------------------------------------------------------------
Overflow == <<"overflow">>

\* _layouts holds default.html alone, and it names no parent
DefaultLayouts == [l \in LayoutNames |-> IF l = "default" THEN "none" ELSE "absent"]

\* a resolution that gives up the content when a layout file is missing
RECURSIVE render_with_layout_strict(_, _, _)
render_with_layout_strict(content, layout_name, depth) ==
  IF layouts[layout_name] = "absent" THEN <<>>
  ELSE LET output == Append(content, layout_name)
       IN  IF layouts[layout_name] = "none" THEN output
           ELSE IF depth >= Cardinality(LayoutNames) THEN Overflow
           ELSE render_with_layout_strict(output, layouts[layout_name], depth + 1)

\* content is the sequence of layouts applied so far; depth counts the
\* nested calls, and a chain longer than the number of layouts never ends
RECURSIVE render_with_layout(_, _, _)
render_with_layout(content, layout_name, depth) ==
  IF layouts[layout_name] = "absent" THEN content
  ELSE LET output == Append(content, layout_name)
       IN  IF layouts[layout_name] = "none" THEN output
           ELSE IF depth >= Cardinality(LayoutNames) THEN Overflow
           ELSE render_with_layout(output, layouts[layout_name], depth + 1)

\* render_post / render_page: the layout is "default" when the item names none
render_item == render_with_layout(<<>>, "default", 0)

\* ------------------------------------------------------------------------
\* SiteBuilder::build, one action per step
\* ------------------------------------------------------------------------
Alive == bpc # "overflow"

\* the orders in which read_dir / WalkDir may list a set of files
Orders(S) == {o \in [1..Cardinality(S) -> S] : \A i, j \in 1..Cardinality(S) : o[i] = o[j] => i = j}

Present(S) == {f \in S : src[f].present}

PostRec(f) == [id |-> f, date |-> parse_date_from_filename(f), ver |-> src[f].ver]
\* a Page: gen is 0 for a source file and, for a file found under the
\* destination, the depth at which it lies there
PageRec(e) ==
  [id |-> e.id, gen |-> e.gen,
   ver |-> IF e.gen = 0 THEN src[e.id].ver ELSE IF e.gen = 1 THEN dest[e.id].ver ELSE 0]

IsGenerated(item) == "gen" \in DOMAIN item /\ item.gen > 0

Last(path) == path[Len(path)]

is_special_directory(path) ==
  Len(path) > 0 /\ Last(path) \in {"_site", "_layouts", "_includes", "_data", "node_modules", ".git"}

\* a pattern is a string like a path: a sequence of tokens
default_exclude ==
  <<<<"Gemfile">>, <<"Gemfile.lock">>, <<"node_modules">>, <<"vendor">>, <<".git">>,
    <<".gitignore">>, <<"_site">>>>

\* str::contains: pat occurs in s as a run of consecutive tokens
contains(s, pat) ==
  \E i \in 0..(Len(s) - Len(pat)) : SubSeq(s, i + 1, i + Len(pat)) = pat

\* a variant that looks at the exclude list only
is_excluded_in_excludeFirst(path, includes, excludes) ==
  \E i \in 1..Len(excludes) : contains(path, excludes[i])

\* Config::is_excluded over the lists given: the include list is gone
\* through first and returns false on its first match
is_excluded_in(path, includes, excludes) ==
  IF \E i \in 1..Len(includes) : contains(path, includes[i]) THEN FALSE
  ELSE \E i \in 1..Len(excludes) : contains(path, excludes[i])

is_excluded(path) == is_excluded_in(path, include, exclude)

\* where a file of the source tree lies
SourcePath(f) ==
  IF f \in PostFiles THEN source \o <<"_posts", f>>
  ELSE IF f \in DraftFiles THEN source \o <<"_drafts", f>>
  ELSE IF f \in AssetFiles THEN source \o <<"assets", f>>
  ELSE source \o <<f>>

\* the page files of the source tree that the walk does not skip as excluded
PageCandidates == {f \in Present(PageFiles) : ~is_excluded(SourcePath(f))}

\* the output files named *.html: a page is written to <name>.html, a post
\* to the name its permalink gives it, which has no extension in this model
HtmlOutputs == PageFiles

\* the walk of process_pages comes to the files under the destination when
\* the destination lies in the source tree and filter_entry does not prune it
DestinationWalked ==
  /\ Len(Canon(destination)) > Len(Canon(source))
  /\ starts_with(Canon(destination), Canon(source))
  /\ \A n \in (Len(source) + 1)..Len(destination) :
        ~is_special_directory(SubSeq(Canon(destination), 1, n))
  /\ ~is_excluded(Canon(destination))

\* the files the walk of process_pages passes on to the parser
PageEntries ==
  {[id |-> f, gen |-> 0] : f \in PageCandidates} \cup
  (IF DestinationWalked
   THEN {[id |-> f, gen |-> 1] : f \in {g \in HtmlOutputs : dest[g] # NoFile}} \cup
        {[id |-> e[1], gen |-> e[2]] : e \in nested}
   ELSE {})

\* a parser that gives a file with a malformed metadata block default metadata
ParseFails_lenient(f) == FALSE

\* parse_front_matter(&content)? returns the error of serde_yaml
ParseFails(f) == f \in malformed

\* a scan that keeps the posts marked published: false
RECURSIVE process_posts_keepAll(_)
process_posts_keepAll(order) ==
  IF Len(order) = 0 THEN <<>>
  ELSE <<PostRec(order[1])>> \o process_posts_keepAll(Tail(order))

\* process_posts: the files in listing order, unpublished ones skipped
RECURSIVE process_posts(_)
process_posts(order) ==
  IF Len(order) = 0 THEN <<>>
  ELSE IF ~src[order[1]].published THEN process_posts(Tail(order))
  ELSE <<PostRec(order[1])>> \o process_posts(Tail(order))

RECURSIVE process_pages(_)
process_pages(order) ==
  IF Len(order) = 0 THEN <<>>
  ELSE <<PageRec(order[1])>> \o process_pages(Tail(order))

\* a sort that puts an item before the items of the same date
RECURSIVE InsertDesc_unstable(_, _)
InsertDesc_unstable(x, s) ==
  IF Len(s) = 0 THEN <<x>>
  ELSE IF s[1].date > x.date THEN <<s[1]>> \o InsertDesc_unstable(x, Tail(s))
  ELSE <<x>> \o s

\* site.posts.sort_by(|a, b| b.date.cmp(&a.date)): a stable sort, newest first
RECURSIVE InsertDesc(_, _)
InsertDesc(x, s) ==
  IF Len(s) = 0 THEN <<x>>
  ELSE IF s[1].date >= x.date THEN <<s[1]>> \o InsertDesc(x, Tail(s))
  ELSE <<x>> \o s

RECURSIVE SortDesc(_)
SortDesc(s) ==
  IF Len(s) = 0 THEN <<>>
  ELSE InsertDesc(s[Len(s)], SortDesc(SubSeq(s, 1, Len(s) - 1)))

Ids(s) == [i \in 1..Len(s) |-> s[i].id]

\* a build that copies the assets before it scans the content
NextStep_assetsFirst(step) ==
  CASE step = "mkdir" -> "static"
    [] step = "static" -> "posts"
    [] step = "posts" -> "drafts"
    [] step = "drafts" -> "sort"
    [] step = "sort" -> "pages"
    [] step = "pages" -> "render_posts"
    [] step = "render_posts" -> "render_pages"
    [] step = "render_pages" -> "ok"
    [] OTHER -> step

\* the order of the steps of build()
NextStep(step) ==
  CASE step = "mkdir" -> "posts"
    [] step = "posts" -> "drafts"
    [] step = "drafts" -> "sort"
    [] step = "sort" -> "pages"
    [] step = "pages" -> "static"
    [] step = "static" -> "render_posts"
    [] step = "render_posts" -> "render_pages"
    [] step = "render_pages" -> "ok"
    [] OTHER -> step

StepDone(step) ==
  /\ bpc' = NextStep(step)
  /\ steps' = Append(steps, step)

\* a write of the output file of item f: fs::write / fs::copy, seen by the watcher
\* the URL of every item is its own: no two items have the same one
OwnUrl == [f \in Files |-> f]

\* a write that leaves a file alone that this build has written already
WriteOutput_keepFirst(f, content) ==
  /\ dest' = IF f \in written THEN dest ELSE [dest EXCEPT ![f] = content]
  /\ written' = written \cup {f}
  /\ dirty' = dirty \cup {f}
  /\ nested' = nested
  /\ Callback([kind |-> IF dest[f] = NoFile THEN "create" ELSE "modify",
               paths |-> {OutPath(f)}])

\* fs::write(&output_path, html): the file is created or replaced
WriteOutput(f, content) ==
  /\ dest' = [dest EXCEPT ![f] = content]
  /\ written' = written \cup {f}
  /\ dirty' = dirty \cup {f}
  /\ nested' = nested
  /\ Callback([kind |-> IF dest[f] = NoFile THEN "create" ELSE "modify",
               paths |-> {OutPath(f)}])

\* the output of a page that was found at depth gen under the destination:
\* its url is its path from the source root, so it is written one level deeper
WriteNested(item) ==
  /\ nested' = nested \cup {<<item.id, item.gen + 1>>}
  /\ UNCHANGED <<dest, written, dirty, chan, sent, quiet, lastEvt>>

NoWrite == UNCHANGED <<dest, nested, written, dirty, chan, sent, quiet, lastEvt>>

buildKeep == <<src, layouts, diskConfig, malformed, builderConfig, include_drafts,
               lastResult, lastGood, nBuilds, mode, source, destination, serverConfig, exclude, include,
               permalink, pc,
               closed, timer, running, nRebuilds, flagVars, callVars>>

\* a build that empties the destination before it starts
BuildMkdir_clean ==
  /\ bpc = "mkdir"
  /\ StepDone("mkdir")
  /\ site' = [posts |-> <<>>, pages |-> <<>>]
  /\ dest' = [f \in Files |-> NoFile]
  /\ UNCHANGED <<nested, written, dirty, chan, sent, quiet, lastEvt>>
  /\ UNCHANGED <<idx, buildKeep>>

\* fs::create_dir_all(&self.destination); Site::new()
BuildMkdir ==
  /\ bpc = "mkdir"
  /\ StepDone("mkdir")
  /\ site' = [posts |-> <<>>, pages |-> <<>>]
  /\ NoWrite
  /\ UNCHANGED <<idx, buildKeep>>

\* site.posts = self.process_posts(&posts_dir)?
BuildPosts ==
  /\ bpc = "posts"
  /\ \A f \in Present(PostFiles) : ~ParseFails(f)
  /\ \E order \in Orders(Present(PostFiles)) :
       site' = [site EXCEPT !.posts = process_posts(order)]
  /\ StepDone("posts")
  /\ NoWrite
  /\ UNCHANGED <<idx, buildKeep>>

\* if self.include_drafts { site.posts.append(&mut drafts) }
BuildDrafts ==
  /\ bpc = "drafts"
  /\ include_drafts => \A f \in Present(DraftFiles) : ~ParseFails(f)
  /\ IF include_drafts
     THEN \E order \in Orders(Present(DraftFiles)) :
            site' = [site EXCEPT !.posts = site.posts \o process_posts(order)]
     ELSE site' = site
  /\ StepDone("drafts")
  /\ NoWrite
  /\ UNCHANGED <<idx, buildKeep>>

BuildSort ==
  /\ bpc = "sort"
  /\ site' = [site EXCEPT !.posts = SortDesc(site.posts)]
  /\ StepDone("sort")
  /\ NoWrite
  /\ UNCHANGED <<idx, buildKeep>>

\* site.pages = self.process_pages()?
BuildPages ==
  /\ bpc = "pages"
  /\ \A f \in PageCandidates : ~ParseFails(f)
  /\ \E order \in Orders(PageEntries) :
       site' = [site EXCEPT !.pages = process_pages(order)]
  /\ StepDone("pages")
  /\ NoWrite
  /\ UNCHANGED <<idx, buildKeep>>

\* copy_directory: fs::copy of one file of the assets subtree
BuildCopyAsset(a) ==
  /\ bpc = "static"
  /\ a \in Present(AssetFiles) \ written
  /\ WriteOutput(a, [item |-> a, ver |-> src[a].ver, cfg |-> 0, posts |-> <<>>, chain |-> <<>>])
  /\ UNCHANGED <<bpc, steps, site, idx, buildKeep>>

\* copy_static_files returns
BuildStaticDone ==
  /\ bpc = "static"
  /\ Present(AssetFiles) \subseteq written
  /\ StepDone("static")
  /\ idx' = 1
  /\ NoWrite
  /\ UNCHANGED <<site, buildKeep>>

Rendered(item) ==
  [item |-> item.id, ver |-> item.ver, cfg |-> builderConfig,
   posts |-> Ids(site.posts), chain |-> render_item]

\* one iteration of the loop of render_posts / render_pages
RenderNext(items, step) ==
  /\ bpc = step
  /\ idx <= Len(items)
  /\ IF render_item = Overflow
     THEN \* the recursion of render_with_layout never returns: the stack overflows
          /\ bpc' = "overflow"
          /\ NoWrite
          /\ UNCHANGED <<idx, steps>>
     ELSE /\ IF IsGenerated(items[idx])
             THEN WriteNested(items[idx])
             ELSE WriteOutput(permalink[items[idx].id], Rendered(items[idx]))
          /\ idx' = idx + 1
          /\ UNCHANGED <<bpc, steps>>
  /\ UNCHANGED <<site, buildKeep>>

RenderDone(items, step) ==
  /\ bpc = step
  /\ idx > Len(items)
  /\ StepDone(step)
  /\ idx' = 1
  /\ NoWrite
  /\ UNCHANGED <<site, buildKeep>>

BuildRenderPost == RenderNext(site.posts, "render_posts")
BuildRenderPostsDone == RenderDone(site.posts, "render_posts")
BuildRenderPage == RenderNext(site.pages, "render_pages")
BuildRenderPagesDone == RenderDone(site.pages, "render_pages")

\* the steps that end in `?`: an I/O, front-matter or template error
FailableSteps == {"mkdir", "posts", "drafts", "pages", "static", "render_posts", "render_pages"}

\* a build that logs the error of a step and goes on with the next step
FailTarget_logged(step) == NextStep(step)

\* `?`: build() returns the error of the step at once
FailTarget(step) == "err"

BuildFail ==
  /\ bpc \in FailableSteps
  /\ bpc = "drafts" => include_drafts
  /\ bpc' = FailTarget(bpc)
  /\ NoWrite
  /\ UNCHANGED <<steps, site, idx, buildKeep>>

BuildStep ==
  \/ BuildMkdir
  \/ BuildPosts
  \/ BuildDrafts
  \/ BuildSort
  \/ BuildPages
  \/ \E a \in AssetFiles : BuildCopyAsset(a)
  \/ BuildStaticDone
  \/ BuildRenderPost
  \/ BuildRenderPostsDone
  \/ BuildRenderPage
  \/ BuildRenderPagesDone
  \/ BuildFail

\* what the caller of build() records when it returns
Returned ==
  /\ bpc \in {"ok", "err"}
  /\ bpc' = "none"
  /\ lastResult' = bpc
  /\ lastGood' = IF bpc = "ok" THEN dest ELSE lastGood
  /\ dirty' = IF bpc = "ok" THEN {} ELSE dirty

\* ------------------------------------------------------------------------
\* Changes made to the files from outside the program
\* ------------------------------------------------------------------------
\* the command-line build is not edited under while it runs; the server is
EditAllowed ==
  /\ Alive
  /\ mode = "build" => bpc = "none"
  /\ mode = "serve" => sent < MaxEvents

envKeep == <<bpc, builderConfig, include_drafts, site, idx, written, steps, lastResult,
             lastGood, dirty, nBuilds, mode, source, destination, serverConfig, exclude, include,
               permalink, pc,
             closed, timer, running, nRebuilds, flagVars, callVars, malformed, nested>>

\* a source file is saved with new content
EditFile(f) ==
  /\ EditAllowed
  /\ src[f].present
  /\ src[f].ver < MaxVer
  /\ src' = [src EXCEPT ![f].ver = @ + 1]
  /\ Callback([kind |-> "modify", paths |-> {SrcPath(f)}])
  /\ UNCHANGED <<layouts, diskConfig, dest, envKeep>>

\* _config.yml is saved with new content
EditConfig ==
  /\ EditAllowed
  /\ diskConfig < MaxVer
  /\ diskConfig' = diskConfig + 1
  /\ Callback([kind |-> "modify", paths |-> {SrcPath("_config.yml")}])
  /\ UNCHANGED <<src, layouts, dest, envKeep>>

\* _layouts/<l>.html is removed (v = "absent") or saved naming parent v
EditLayout(l, v) ==
  /\ EditAllowed
  /\ layouts[l] # v
  /\ layouts' = [layouts EXCEPT ![l] = v]
  /\ Callback([kind |-> IF v = "absent" THEN "remove" ELSE "modify",
               paths |-> {[raw |-> source \o <<"_layouts", l>>, exists |-> v # "absent"]}])
  /\ UNCHANGED <<src, diskConfig, dest, envKeep>>

\* the paths of files the model does not track: a scratch file in the
\* source root and one under the destination, present or already gone
OtherPaths ==
  {[raw |-> source \o <<"notes.txt">>, exists |-> e] : e \in BOOLEAN} \cup
  {[raw |-> DestinationOf(source) \o <<"tmp.html">>, exists |-> e] : e \in BOOLEAN}

\* the watcher reports a change of files the model does not track
WatcherEvent(kind, paths) ==
  /\ mode = "serve"
  /\ EditAllowed
  /\ Callback([kind |-> kind, paths |-> paths])
  /\ UNCHANGED <<fsVars, envKeep>>

\* the watcher is dropped: DevServer::run returns or is cancelled
CloseChannel ==
  /\ mode = "serve"
  /\ Alive
  /\ ~closed
  /\ closed' = TRUE
  /\ UNCHANGED <<fsVars, buildVars, pc, chan, timer, quiet, sent, lastEvt, running,
                 nRebuilds, flagVars, setupVars, callVars>>

\* 100 ms pass
Tick ==
  /\ mode = "serve"
  /\ Alive
  /\ timer' = IF pc = "Debouncing" THEN Min(timer + 1, WindowTicks) ELSE timer
  /\ quiet' = Min(quiet + 1, WindowTicks)
  /\ UNCHANGED <<fsVars, buildVars, pc, chan, closed, sent, lastEvt, running,
                 nRebuilds, flagVars, setupVars, callVars>>

\* ------------------------------------------------------------------------
\* The debounce task: handle_file_changes and wait_for_quiet_period
\* ------------------------------------------------------------------------
taskKeep == <<fsVars, buildVars, closed, quiet, sent, lastEvt, running, nRebuilds,
              flagVars, setupVars, callVars>>

\* rx.recv().await returns Some: the first event of a cycle
RecvFirst ==
  /\ Alive
  /\ pc = "Idle"
  /\ chan > 0
  /\ chan' = chan - 1
  /\ pc' = "PendingChange"
  /\ UNCHANGED <<timer, taskKeep>>

\* rx.recv().await returns None: break
RecvClosed ==
  /\ Alive
  /\ pc = "Idle"
  /\ chan = 0
  /\ closed
  /\ pc' = "Terminated"
  /\ UNCHANGED <<chan, timer, taskKeep>>

\* wait_for_quiet_period is entered and arms the first timeout
EnterDebounce ==
  /\ Alive
  /\ pc = "PendingChange"
  /\ pc' = "Debouncing"
  /\ timer' = 0
  /\ UNCHANGED <<chan, taskKeep>>

\* Ok(Some(_)): continue, which arms a new timeout
DebounceRecv ==
  /\ Alive
  /\ pc = "Debouncing"
  /\ chan > 0
  /\ chan' = chan - 1
  /\ timer' = 0
  /\ UNCHANGED <<pc, taskKeep>>

\* Ok(None): the channel is closed, return
DebounceClosed ==
  /\ Alive
  /\ pc = "Debouncing"
  /\ chan = 0
  /\ closed
  /\ pc' = "TriggerReload"
  /\ timer' = 0
  /\ UNCHANGED <<chan, taskKeep>>

\* Err(_): no event for the whole debounce duration, return
DebounceTimeout ==
  /\ Alive
  /\ pc = "Debouncing"
  /\ chan = 0
  /\ ~closed
  /\ timer >= WindowTicks
  /\ pc' = "TriggerReload"
  /\ timer' = 0
  /\ UNCHANGED <<chan, taskKeep>>

\* a flag that is read and cleared without holding the lock
CanAcquire_unlocked(l) == TRUE

\* the write lock of the flag can be taken
CanAcquire(l) == l = "free"

\* trigger_reload: take the write lock, set the flag, release
TriggerReload ==
  /\ Alive
  /\ pc = "TriggerReload"
  /\ CanAcquire(lock)
  /\ reload_flag' = TRUE
  /\ nSets' = nSets + 1
  /\ pc' = "StartRebuild"
  /\ UNCHANGED <<fsVars, buildVars, chan, closed, timer, quiet, sent, lastEvt, running,
                 nRebuilds, lock, ppc, should_reload, served, nReload, setupVars, callVars>>

\* the Config a rebuild is given: the clone made when the task was spawned
RebuildConfig == serverConfig

\* a rebuild that is spawned and not awaited
AfterRebuildStart_spawned == "Idle"

\* the task's position while build() runs: it awaits the build
AfterRebuildStart == "Rebuilding"

\* rebuild_site: SiteBuilder::new(.., config.clone()), set_include_drafts, build()
RebuildStart ==
  /\ Alive
  /\ pc = "StartRebuild"
  /\ pc' = AfterRebuildStart
  /\ builderConfig' = RebuildConfig
  /\ bpc' = "mkdir"
  /\ written' = {}
  /\ steps' = <<>>
  /\ idx' = 1
  /\ running' = running + 1
  /\ nRebuilds' = nRebuilds + 1
  /\ UNCHANGED <<fsVars, include_drafts, site, lastResult, lastGood, dirty, nBuilds, chan,
                 closed, timer, quiet, sent, lastEvt, flagVars, setupVars, callVars>>

\* rebuild_site_with_logging logs the result; the loop goes back to recv
RebuildDone ==
  /\ pc = "Rebuilding"
  /\ Returned
  /\ pc' = "Idle"
  /\ running' = running - 1
  /\ UNCHANGED <<fsVars, builderConfig, include_drafts, site, idx, written, steps, nBuilds,
                 chan, closed, timer, quiet, sent, lastEvt, nRebuilds, flagVars, setupVars, callVars>>

\* ------------------------------------------------------------------------
\* The HTTP handler of /__reload__ (reload_status)
\* ------------------------------------------------------------------------
pollKeep == <<fsVars, buildVars, loopVars, setupVars, callVars>>

\* state.reload_flag.write().await; let should_reload = *flag
PollAcquire(h) ==
  /\ Alive
  /\ mode = "serve"
  /\ ppc[h] = "idle"
  /\ CanAcquire(lock)
  /\ lock' = h
  /\ ppc' = [ppc EXCEPT ![h] = "held"]
  /\ should_reload' = [should_reload EXCEPT ![h] = reload_flag]
  /\ UNCHANGED <<reload_flag, nSets, served, nReload, pollKeep>>

\* if should_reload { *flag = false; "reload" } else { "ok" }; the guard is dropped
PollRespond(h) ==
  /\ Alive
  /\ ppc[h] = "held"
  /\ IF should_reload[h]
     THEN /\ reload_flag' = FALSE
          /\ nReload' = nReload + 1
          /\ served' = served \cup {nSets}
     ELSE UNCHANGED <<reload_flag, nReload, served>>
  /\ lock' = IF lock = h THEN "free" ELSE lock
  /\ ppc' = [ppc EXCEPT ![h] = "idle"]
  /\ should_reload' = [should_reload EXCEPT ![h] = FALSE]
  /\ UNCHANGED <<nSets, pollKeep>>

\* ------------------------------------------------------------------------
\* The HTTP server: the Router of start_http_server and what answers a GET
\* ------------------------------------------------------------------------
RELOAD_ENDPOINT == [stem |-> "__reload__", ext |-> ""]
HTML_EXTENSION == "html"

\* the name of the output file of an item, below the destination
OutName(f) ==
  [stem |-> f,
   ext |-> IF f \in HtmlOutputs THEN "html" ELSE IF f \in AssetFiles THEN "css" ELSE ""]

\* the request paths of the model: every output file and a file that is not there
Uris == {OutName(f) : f \in Files} \cup {[stem |-> "nope", ext |-> "html"]}

\* the bytes of an output file: the layouts of the model have a body
\* element, an item written without a layout has none
FileText(f) ==
  IF f \in AssetFiles THEN <<"css">>
  ELSE IF dest[f].chain = <<>> THEN <<"x">>
  ELSE <<"<body>", "x", "</body>">>

\* resolve_file_path, then the look-up of the file: the item whose output
\* the path names, if that file exists
FilesAt(uri) == {f \in Files : OutName(f) = uri /\ dest[f] # NoFile}

\* str::rfind: the last position of the token, 0 when there is none
rfind(s, token) ==
  LET at == {i \in 1..Len(s) : s[i] = token}
  IN  IF at = {} THEN 0 ELSE CHOOSE i \in at : \A j \in at : j <= i

\* an injection that always appends the script
inject_reload_script_append(html) == html \o <<"<script>">>

inject_reload_script(html) ==
  LET pos == rfind(html, "</body>")
  IN  IF pos > 0
      THEN SubSeq(html, 1, pos - 1) \o <<"<script>">> \o SubSeq(html, pos, Len(html))
      ELSE html \o <<"<script>">>

is_html_file(path) == path.ext = HTML_EXTENSION

\* serve_static / serve_file: 404 for a missing file, the bytes of the
\* file otherwise, with the script injected into an html file
serve_static(uri) ==
  IF FilesAt(uri) = {}
  THEN [status |-> 404, handler |-> "serve_static", html |-> FALSE, body |-> <<>>]
  ELSE LET f == CHOOSE g \in FilesAt(uri) : TRUE
       IN  [status |-> 200, handler |-> "serve_static", html |-> is_html_file(uri),
            body |-> IF is_html_file(uri) THEN inject_reload_script(FileText(f))
                     ELSE FileText(f)]

\* tower_http's ServeDir::new(&self.destination): the bytes of the file as
\* they are, 404 for a missing file
ServeDir(uri) ==
  IF FilesAt(uri) = {}
  THEN [status |-> 404, handler |-> "ServeDir", html |-> FALSE, body |-> <<>>]
  ELSE LET f == CHOOSE g \in FilesAt(uri) : TRUE
       IN  [status |-> 200, handler |-> "ServeDir", html |-> uri.ext = "html",
            body |-> FileText(f)]

\* Router::new().route(RELOAD_ENDPOINT, ..).fallback(serve_static)
\* .nest_service("/", ServeDir): the service nested at "/" is registered for
\* "/" and for every path below it, and the fallback answers only a request
\* that no route matches
Route(uri) ==
  LET matching == (IF uri = RELOAD_ENDPOINT THEN {"reload_status"} ELSE {}) \cup {"ServeDir"}
  IN  IF "reload_status" \in matching THEN "reload_status"
      ELSE IF "ServeDir" \in matching THEN "ServeDir"
      ELSE "serve_static"

\* a GET of a path other than the reload endpoint is answered
Get(uri) ==
  /\ Alive
  /\ mode = "serve"
  /\ Route(uri) # "reload_status"
  /\ resp' = IF Route(uri) = "ServeDir" THEN ServeDir(uri) ELSE serve_static(uri)
  /\ UNCHANGED <<fsVars, buildVars, loopVars, flagVars, setupVars, arg, ret>>

\* ------------------------------------------------------------------------
\* The build command (jellrust-cli build): load the Config, build
\* ------------------------------------------------------------------------
BuildStart ==
  /\ mode = "build"
  /\ bpc = "none"
  /\ nBuilds < MaxBuilds
  /\ nBuilds' = nBuilds + 1
  /\ builderConfig' = diskConfig
  /\ bpc' = "mkdir"
  /\ written' = {}
  /\ steps' = <<>>
  /\ idx' = 1
  /\ UNCHANGED <<fsVars, include_drafts, site, lastResult, lastGood, dirty, loopVars,
                 flagVars, setupVars, callVars>>

BuildReturn ==
  /\ mode = "build"
  /\ Returned
  /\ UNCHANGED <<fsVars, builderConfig, include_drafts, site, idx, written, steps, nBuilds,
                 loopVars, flagVars, setupVars, callVars>>

\* ------------------------------------------------------------------------
\* The dev server (jellrust serve): serve.rs has loaded the Config and built
\* the site once, DevServer::run has spawned the debounce task, set up the
\* watcher and started the HTTP server
\* ------------------------------------------------------------------------
ServeSource ==
  [f \in Files |-> IF f \in {"p1", "g1", "a1"}
                   THEN [present |-> TRUE, ver |-> 1, published |-> TRUE]
                   ELSE Absent]

\* the output of the initial build of ServeSource
ServeOutput ==
  [f \in Files |->
     CASE f \in {"p1", "g1"} ->
            [item |-> f, ver |-> 1, cfg |-> 1, posts |-> <<"p1">>, chain |-> <<"default">>]
       [] f = "a1" -> [item |-> f, ver |-> 1, cfg |-> 0, posts |-> <<>>, chain |-> <<>>]
       [] OTHER -> NoFile]

InitFlag ==
  /\ reload_flag = FALSE
  /\ lock = "free"
  /\ ppc = [h \in Pollers |-> "idle"]
  /\ should_reload = [h \in Pollers |-> FALSE]
  /\ nSets = 0
  /\ served = {}
  /\ nReload = 0

\* no request has been answered, no function called
NoResponse == [status |-> 0]
NoCall == [fn |-> "none"]

InitCall ==
  /\ resp = NoResponse
  /\ arg = NoCall
  /\ ret = NoCall

InitLoop ==
  /\ pc = "Idle"
  /\ chan = 0
  /\ closed = FALSE
  /\ timer = 0
  /\ quiet = WindowTicks
  /\ sent = 0
  /\ lastEvt = NoEvent
  /\ running = 0
  /\ nRebuilds = 0

InitServe(roots) ==
  /\ mode = "serve"
  /\ source \in roots
  /\ destination = canonicalize_path(DestinationOf(source), TRUE)
  /\ src = ServeSource
  /\ layouts = [l \in LayoutNames |-> IF l = "default" THEN "none" ELSE "absent"]
  /\ diskConfig = 1
  /\ serverConfig = 1
  /\ exclude = default_exclude
  /\ include = <<>>
  /\ permalink = OwnUrl
  /\ dest = ServeOutput
  /\ malformed = {}
  /\ nested = {}
  /\ bpc = "none"
  /\ builderConfig = 1
  /\ include_drafts = FALSE
  /\ site = [posts |-> <<>>, pages |-> <<>>]
  /\ idx = 1
  /\ written = {}
  /\ steps = <<>>
  /\ lastResult = "ok"
  /\ lastGood = ServeOutput
  /\ dirty = {}
  /\ nBuilds = 0
  /\ InitLoop
  /\ InitFlag
  /\ InitCall

Init == InitServe({<<"site">>})

\* the debounce task
TaskStep ==
  \/ RecvFirst
  \/ RecvClosed
  \/ EnterDebounce
  \/ DebounceRecv
  \/ DebounceClosed
  \/ DebounceTimeout
  \/ TriggerReload
  \/ RebuildStart
  \/ BuildStep
  \/ RebuildDone

\* the scratch files as they are while they exist
ScratchFiles == {p \in OtherPaths : p.exists}

Next ==
  \/ \E kind \in {"modify", "access"}, p \in ScratchFiles : WatcherEvent(kind, {p})
  \/ EditConfig
  \/ \E v \in {"none", "absent", "default"} : EditLayout("default", v)
  \/ CloseChannel
  \/ Tick
  \/ RecvFirst
  \/ RecvClosed
  \/ EnterDebounce
  \/ DebounceRecv
  \/ DebounceClosed
  \/ DebounceTimeout
  \/ TriggerReload
  \/ RebuildStart
  \/ BuildMkdir
  \/ BuildPosts
  \/ BuildDrafts
  \/ BuildSort
  \/ BuildPages
  \/ \E a \in AssetFiles : BuildCopyAsset(a)
  \/ BuildStaticDone
  \/ BuildRenderPost
  \/ BuildRenderPostsDone
  \/ BuildRenderPage
  \/ BuildRenderPagesDone
  \/ BuildFail
  \/ RebuildDone

\* the dev server, its watcher and its debounce task
Spec == Init /\ [][Next]_vars

\* ------------------------------------------------------------------------
\* The dev server with concurrent polls of /__reload__
\* ------------------------------------------------------------------------
NextReload ==
  \/ WatcherEvent("modify", {SrcPath("notes.txt")})
  \/ Tick
  \/ RecvFirst
  \/ EnterDebounce
  \/ DebounceRecv
  \/ DebounceTimeout
  \/ TriggerReload
  \/ RebuildStart
  \/ BuildMkdir
  \/ BuildPosts
  \/ BuildDrafts
  \/ BuildSort
  \/ BuildPages
  \/ \E a \in AssetFiles : BuildCopyAsset(a)
  \/ BuildStaticDone
  \/ BuildRenderPost
  \/ BuildRenderPostsDone
  \/ BuildRenderPage
  \/ BuildRenderPagesDone
  \/ BuildFail
  \/ RebuildDone
  \/ \E h \in Pollers : PollAcquire(h)
  \/ \E h \in Pollers : PollRespond(h)

SpecReload == Init /\ [][NextReload]_vars

\* ------------------------------------------------------------------------
\* The dev server as a browser sees it: pages are fetched while the layout
\* is edited and the site is rebuilt
\* ------------------------------------------------------------------------
NextHttp ==
  \/ \E v \in {"none", "absent"} : EditLayout("default", v)
  \/ Tick
  \/ RecvFirst
  \/ EnterDebounce
  \/ DebounceRecv
  \/ DebounceTimeout
  \/ TriggerReload
  \/ RebuildStart
  \/ BuildMkdir
  \/ BuildPosts
  \/ BuildDrafts
  \/ BuildSort
  \/ BuildPages
  \/ \E a \in AssetFiles : BuildCopyAsset(a)
  \/ BuildStaticDone
  \/ BuildRenderPost
  \/ BuildRenderPostsDone
  \/ BuildRenderPage
  \/ BuildRenderPagesDone
  \/ BuildFail
  \/ RebuildDone
  \/ \E uri \in Uris : Get(uri)

SpecHttp == Init /\ [][NextHttp]_vars

\* ------------------------------------------------------------------------
\* The watcher's filter, with the source root given under either spelling
\* ------------------------------------------------------------------------
InitWatch == InitServe({<<"site">>, <<"link">>})

NextWatch ==
  \/ \E kind \in EventKinds, paths \in SUBSET OtherPaths : WatcherEvent(kind, paths)
  \/ Tick
  \/ RecvFirst
  \/ EnterDebounce
  \/ DebounceRecv
  \/ DebounceTimeout
  \/ TriggerReload
  \/ RebuildStart
  \/ BuildMkdir
  \/ BuildPosts
  \/ BuildDrafts
  \/ BuildSort
  \/ BuildPages
  \/ \E a \in AssetFiles : BuildCopyAsset(a)
  \/ BuildStaticDone
  \/ BuildRenderPost
  \/ BuildRenderPostsDone
  \/ BuildRenderPage
  \/ BuildRenderPagesDone
  \/ BuildFail
  \/ RebuildDone

SpecWatch == InitWatch /\ [][NextWatch]_vars

\* ------------------------------------------------------------------------
\* The build command run again and again on a source tree that is edited
\* between the runs
\* ------------------------------------------------------------------------
InitBuild ==
  /\ mode = "build"
  /\ source = <<"site">>
  /\ destination = DestinationOf(source)
  /\ src \in [Files -> [present : {TRUE}, ver : {1}, published : BOOLEAN]]
  /\ \A f \in PageFiles \cup AssetFiles : src[f].published
  /\ layouts = [l \in LayoutNames |-> IF l = "default" THEN "none" ELSE "absent"]
  /\ diskConfig = 1
  /\ serverConfig = 1
  /\ exclude = default_exclude
  /\ include = <<>>
  /\ permalink = OwnUrl
  /\ dest = [f \in Files |-> NoFile]
  /\ malformed = {}
  /\ nested = {}
  /\ bpc = "none"
  /\ builderConfig = 1
  /\ include_drafts \in BOOLEAN
  /\ site = [posts |-> <<>>, pages |-> <<>>]
  /\ idx = 1
  /\ written = {}
  /\ steps = <<>>
  /\ lastResult = "none"
  /\ lastGood = [f \in Files |-> NoFile]
  /\ dirty = {}
  /\ nBuilds = 0
  /\ InitLoop
  /\ InitFlag
  /\ InitCall

NextBuild ==
  \/ \E f \in {"p1", "g1"} : EditFile(f)
  \/ EditConfig
  \/ \E v \in {"none", "absent"} : EditLayout("default", v)
  \/ BuildStart
  \/ BuildMkdir
  \/ BuildPosts
  \/ BuildDrafts
  \/ BuildSort
  \/ BuildPages
  \/ \E a \in AssetFiles : BuildCopyAsset(a)
  \/ BuildStaticDone
  \/ BuildRenderPost
  \/ BuildRenderPostsDone
  \/ BuildRenderPage
  \/ BuildRenderPagesDone
  \/ BuildFail
  \/ BuildReturn

SpecBuild == InitBuild /\ [][NextBuild]_vars

\* ------------------------------------------------------------------------
\* The build command with the destination given by --destination: the
\* default, another directory of the source tree, a directory outside it
\* ------------------------------------------------------------------------
Destinations == {<<"site", "_site">>, <<"site", "public">>, <<"out">>}

InitPages ==
  /\ mode = "build"
  /\ source = <<"site">>
  /\ destination \in Destinations
  /\ src = ServeSource
  /\ layouts = [l \in LayoutNames |-> IF l = "default" THEN "none" ELSE "absent"]
  /\ diskConfig = 1
  /\ serverConfig = 1
  /\ exclude = default_exclude
  /\ include = <<>>
  /\ permalink = OwnUrl
  /\ dest = [f \in Files |-> NoFile]
  /\ malformed = {}
  /\ nested = {}
  /\ bpc = "none"
  /\ builderConfig = 1
  /\ include_drafts = FALSE
  /\ site = [posts |-> <<>>, pages |-> <<>>]
  /\ idx = 1
  /\ written = {}
  /\ steps = <<>>
  /\ lastResult = "none"
  /\ lastGood = [f \in Files |-> NoFile]
  /\ dirty = {}
  /\ nBuilds = 0
  /\ InitLoop
  /\ InitFlag
  /\ InitCall

NextPages ==
  \/ EditFile("g1")
  \/ BuildStart
  \/ BuildMkdir
  \/ BuildPosts
  \/ BuildDrafts
  \/ BuildSort
  \/ BuildPages
  \/ \E a \in AssetFiles : BuildCopyAsset(a)
  \/ BuildStaticDone
  \/ BuildRenderPost
  \/ BuildRenderPostsDone
  \/ BuildRenderPage
  \/ BuildRenderPagesDone
  \/ BuildFail
  \/ BuildReturn

SpecPages == InitPages /\ [][NextPages]_vars

\* ------------------------------------------------------------------------
\* The build command on source trees in which some metadata blocks are
\* malformed
\* ------------------------------------------------------------------------
InitMalformed ==
  /\ mode = "build"
  /\ source = <<"site">>
  /\ destination = DestinationOf(source)
  /\ src = [f \in Files |-> [present |-> TRUE, ver |-> 1, published |-> TRUE]]
  /\ layouts = DefaultLayouts
  /\ diskConfig = 1
  /\ serverConfig = 1
  /\ exclude = default_exclude
  /\ include = <<>>
  /\ permalink = OwnUrl
  /\ dest = [f \in Files |-> NoFile]
  /\ malformed \in SUBSET {"p1", "d1", "g1"}
  /\ nested = {}
  /\ bpc = "none"
  /\ builderConfig = 1
  /\ include_drafts \in BOOLEAN
  /\ site = [posts |-> <<>>, pages |-> <<>>]
  /\ idx = 1
  /\ written = {}
  /\ steps = <<>>
  /\ lastResult = "none"
  /\ lastGood = [f \in Files |-> NoFile]
  /\ dirty = {}
  /\ nBuilds = 0
  /\ InitLoop
  /\ InitFlag
  /\ InitCall

NextMalformed ==
  \/ BuildStart
  \/ BuildMkdir
  \/ BuildPosts
  \/ BuildDrafts
  \/ BuildSort
  \/ BuildPages
  \/ \E a \in AssetFiles : BuildCopyAsset(a)
  \/ BuildStaticDone
  \/ BuildRenderPost
  \/ BuildRenderPostsDone
  \/ BuildRenderPage
  \/ BuildRenderPagesDone
  \/ BuildFail
  \/ BuildReturn

SpecMalformed == InitMalformed /\ [][NextMalformed]_vars

\* ------------------------------------------------------------------------
\* The functions of the libraries, called on their own
\* ------------------------------------------------------------------------
\* nothing is built or served; only arg and ret are used
InitLibrary ==
  /\ mode = "library"
  /\ source = <<"site">>
  /\ destination = DestinationOf(source)
  /\ src = ServeSource
  /\ diskConfig = 1
  /\ serverConfig = 1
  /\ exclude = default_exclude
  /\ include = <<>>
  /\ permalink = OwnUrl
  /\ dest = [f \in Files |-> NoFile]
  /\ malformed = {}
  /\ nested = {}
  /\ bpc = "none"
  /\ builderConfig = 1
  /\ include_drafts = FALSE
  /\ site = [posts |-> <<>>, pages |-> <<>>]
  /\ idx = 1
  /\ written = {}
  /\ steps = <<>>
  /\ lastResult = "none"
  /\ lastGood = [f \in Files |-> NoFile]
  /\ dirty = {}
  /\ nBuilds = 0
  /\ InitLoop
  /\ InitFlag
  /\ resp = NoResponse
  /\ ret = NoCall

libraryKeep == <<fsVars, buildVars, loopVars, flagVars, setupVars, resp>>

\* the strings of at most n tokens
Strs(tokens, n) == UNION {[1..k -> tokens] : k \in 0..n}

\* Option<String>: <<>> is None, <<s>> is Some(s)
Options(S) == {<<>>} \cup {<<s>> : s \in S}

\* ------------------------------------------------------------------------
\* The URL of a post and of a page (generate_post_url, generate_page_url)
\* ------------------------------------------------------------------------
\* str::replace, on strings of tokens
RECURSIVE replace(_, _, _)
replace(s, from, to) ==
  IF Len(s) = 0 THEN <<>>
  ELSE (IF s[1] = from THEN to ELSE <<s[1]>>) \o replace(Tail(s), from, to)

\* join("-") of the segments
RECURSIVE join(_, _)
join(segs, sep) ==
  IF Len(segs) = 0 THEN <<>>
  ELSE IF Len(segs) = 1 THEN <<segs[1]>>
  ELSE <<segs[1], sep>> \o join(Tail(segs), sep)

RECURSIVE trim_start_matches(_, _)
trim_start_matches(s, c) ==
  IF Len(s) > 0 /\ s[1] = c THEN trim_start_matches(Tail(s), c) ELSE s

\* post: [permalink: the front matter's, stem: the '-'-separated segments of
\* the file stem]; pattern: config.permalink
generate_post_url(post, pattern) ==
  IF post.permalink # <<>> THEN post.permalink[1]
  ELSE LET u1 == replace(pattern, ":year", <<"2024">>)
           u2 == replace(u1, ":month", <<"01">>)
           u3 == replace(u2, ":day", <<"01">>)
           title == join(SubSeq(post.stem, 4, Len(post.stem)), "-")
       IN  replace(u3, ":title", title)

\* page: [permalink, rel: the components of the path below the source root,
\* without the extension of the file]
generate_page_url(page) ==
  IF page.permalink # <<>> THEN page.permalink[1]
  ELSE trim_start_matches(join(page.rel, "/") \o <<".html">>, "/")

UrlTokens == {"/", ":title", ":year", "x"}

PostStems == {<<"2024", "01", "01", "a">>, <<"2024", "01", "01">>, <<"2024", "01", "01", "a", "b">>}

PageRels == {<<"about">>, <<"docs", "a">>}

UrlInputs ==
  [fn : {"generate_post_url"}, permalink : Options(Strs(UrlTokens, MaxUrlLen)),
   stem : PostStems, pattern : Strs(UrlTokens, MaxUrlLen)]
  \cup
  [fn : {"generate_page_url"}, permalink : Options(Strs(UrlTokens, MaxUrlLen)),
   rel : PageRels]

InitUrl == InitLibrary /\ layouts = DefaultLayouts /\ arg \in UrlInputs

\* process_posts: post.url = self.generate_post_url(&post)
GeneratePostUrl ==
  /\ arg.fn = "generate_post_url"
  /\ ret = NoCall
  /\ ret' = [fn |-> arg.fn, url |-> generate_post_url(arg, arg.pattern)]
  /\ UNCHANGED <<arg, libraryKeep>>

\* process_pages: page.url = self.generate_page_url(&page)
GeneratePageUrl ==
  /\ arg.fn = "generate_page_url"
  /\ ret = NoCall
  /\ ret' = [fn |-> arg.fn, url |-> generate_page_url(arg)]
  /\ UNCHANGED <<arg, libraryKeep>>

NextUrl ==
  \/ GeneratePostUrl
  \/ GeneratePageUrl

SpecUrl == InitUrl /\ [][NextUrl]_vars

\* ------------------------------------------------------------------------
\* The front-matter extractor (MarkdownProcessor::parse_front_matter)
\* ------------------------------------------------------------------------
\* a text is a string of tokens: "---" is three dashes, "n" a line feed,
\* "s" a space, "a" a line of the form `key: value`
TextTokens == {"---", "n", "s", "a"}
Whitespace == {"n", "s"}

RECURSIVE trim_start(_)
trim_start(s) == IF Len(s) > 0 /\ s[1] \in Whitespace THEN trim_start(Tail(s)) ELSE s

RECURSIVE trim_end(_)
trim_end(s) ==
  IF Len(s) > 0 /\ s[Len(s)] \in Whitespace THEN trim_end(SubSeq(s, 1, Len(s) - 1)) ELSE s

trim(s) == trim_end(trim_start(s))

\* str::find("\n---"): the offsets at which a line feed is followed by three dashes
FindClosing(rest) == {i \in 1..(Len(rest) - 1) : rest[i] = "n" /\ rest[i + 1] = "---"}

\* serde_yaml::from_str::<FrontMatter>: lines of `key: value` make a
\* FrontMatter; what it does with any other text is left open
YamlLines(y) ==
  /\ \E i \in 1..Len(y) : y[i] = "a"
  /\ \A i \in 1..Len(y) : y[i] \in {"a", "n"}
  /\ \A i \in 1..(Len(y) - 1) : ~(y[i] = "a" /\ y[i + 1] = "a")

from_str(y) == IF YamlLines(y) THEN {"parsed"} ELSE {"parsed", "err"}

\* the results parse_front_matter can return for the text
parse_front_matter(content) ==
  LET trimmed == trim(content)
  IN  IF ~starts_with(trimmed, <<"---">>)
      THEN {[result |-> "default", yaml |-> <<>>, body |-> content]}
      ELSE LET rest == Tail(trimmed)
           IN  IF FindClosing(rest) # {}
               THEN LET end_pos == CHOOSE i \in FindClosing(rest) : \A j \in FindClosing(rest) : i <= j
                        yaml_content == SubSeq(rest, 1, end_pos - 1)
                        body == trim_start(SubSeq(rest, end_pos + 2, Len(rest)))
                    IN  {IF r = "err" THEN [result |-> "err", yaml |-> yaml_content, body |-> <<>>]
                                      ELSE [result |-> r, yaml |-> yaml_content, body |-> body] :
                           r \in from_str(yaml_content)}
               ELSE {[result |-> "default", yaml |-> <<>>, body |-> content]}

InitParse ==
  /\ InitLibrary
  /\ layouts = DefaultLayouts
  /\ arg \in [fn : {"parse_front_matter"}, text : Strs(TextTokens, MaxTextLen)]

\* process_posts / process_pages: parse_front_matter(&content)
ParseFrontMatter ==
  /\ arg.fn = "parse_front_matter"
  /\ ret = NoCall
  /\ \E r \in parse_front_matter(arg.text) :
       ret' = [fn |-> arg.fn, result |-> r.result, yaml |-> r.yaml, body |-> r.body]
  /\ UNCHANGED <<arg, libraryKeep>>

NextParse == ParseFrontMatter

SpecParse == InitParse /\ [][NextParse]_vars

\* ------------------------------------------------------------------------
\* render_post / render_page on every set of layout files
\* ------------------------------------------------------------------------
\* front_matter.layout .unwrap_or("default")
layout_name(item) == IF item.layout = <<>> THEN "default" ELSE item.layout[1]

LayoutFiles == [LayoutNames -> {"absent", "none"} \cup LayoutNames]

InitLayout ==
  /\ InitLibrary
  /\ layouts \in LayoutFiles
  /\ arg \in [fn : {"render_with_layout"}, layout : Options(LayoutNames)]

\* render_post / render_page: the item's html wrapped in its layouts
RenderItem ==
  /\ arg.fn = "render_with_layout"
  /\ ret = NoCall
  /\ ret' = [fn |-> arg.fn, out |-> render_with_layout(<<>>, layout_name(arg), 0)]
  /\ UNCHANGED <<arg, libraryKeep>>

NextLayout == RenderItem

SpecLayout == InitLayout /\ [][NextLayout]_vars

\* the dev server under the scheduling tokio gives it: the debounce task is
\* polled whenever it can run, and time passes
FairSpec == Spec /\ WF_vars(TaskStep) /\ WF_vars(Tick)

\* ========================================================================
\* Properties
\* ========================================================================

\* C1: a burst of qualifying events, each less than the debounce window
\* after the previous one, produces one rebuild: the wait of a cycle ends,
\* with every queued event consumed, only when a full window has passed
\* since the last qualifying event was sent.
C1_RebuildAfterFullWindow ==
  [][(pc = "Debouncing" /\ pc' = "TriggerReload") => (chan = 0 /\ quiet >= WindowTicks)]_vars

\* C2: every "reload" response answers a flag-set of its own: a poll
\* answers "reload" exactly when the flag is set at its turn, it leaves the
\* flag cleared, no two polls answer "reload" for the same flag-set, and
\* there are never more "reload" responses than flag-sets.
C2_ReloadOncePerFlagSet ==
  /\ [](nReload <= nSets /\ Cardinality(served) = nReload)
  /\ [][\A h \in Pollers :
          (ppc[h] = "held" /\ ppc'[h] = "idle") =>
             /\ (nReload' = nReload + 1) <=> reload_flag
             /\ nReload' = nReload <=> ~reload_flag
             /\ ~reload_flag']_vars

\* two flag-sets have each been answered by one "reload", and a poll that
\* runs after them sees the flag cleared
C2_Witness ==
  /\ nSets = 2
  /\ nReload = 2
  /\ \E h \in Pollers : ppc[h] = "held" /\ ~should_reload[h]

\* C3: at most one rebuild executes at any time.
C3_AtMostOneRebuild == running <= 1

\* a rebuild is running while a new qualifying event waits in the channel
C3_Witness == running = 1 /\ chan > 0 /\ bpc = "render_posts" /\ nRebuilds = 2

\* C4: a watcher event is forwarded to the debounce loop if and only if its
\* kind is create, modify or remove and none of its paths lies under the
\* destination directory.
C4_ForwardedIffRelevantOutsideDestination ==
  lastEvt.seen => (lastEvt.forwarded <=> (lastEvt.relevant /\ ~lastEvt.inDest))

\* C5: every cycle follows Idle -> PendingChange -> Debouncing -> Rebuilding
\* -> Idle: the wait is left only when the timeout of a full window has
\* expired, the flag is then set before the rebuild starts, and the loop is
\* left only from Idle with the channel closed.
CycleEdges ==
  {<<"Idle", "PendingChange">>, <<"PendingChange", "Debouncing">>,
   <<"Debouncing", "TriggerReload">>, <<"TriggerReload", "StartRebuild">>,
   <<"StartRebuild", "Rebuilding">>, <<"Rebuilding", "Idle">>, <<"Idle", "Terminated">>}

C5_CycleOnQuietWindowExpiry ==
  [][/\ pc' # pc => <<pc, pc'>> \in CycleEdges
     /\ (pc = "Debouncing" /\ pc' # pc) => timer >= WindowTicks
     /\ (pc = "TriggerReload" /\ pc' # pc) => (reload_flag' /\ nSets' = nSets + 1)
     /\ (pc = "StartRebuild" /\ pc' # pc) => (nRebuilds' = nRebuilds + 1 /\ nSets = nRebuilds')
     /\ pc' = "Terminated" => closed]_vars

\* C6: the Config a rebuild uses is the content of _config.yml at the time
\* the rebuild starts.
C6_RebuildUsesConfigOnDisk ==
  [][nRebuilds' = nRebuilds + 1 => builderConfig' = diskConfig]_vars

\* C7: whatever happens in a rebuild, the server goes on: the handlers can
\* answer while it runs, and when it ends the loop is back in Idle.
C7_RebuildNeverStopsServer ==
  /\ [](pc = "Rebuilding" => Alive)
  /\ [][(pc = "Rebuilding" /\ pc' # pc) => pc' = "Idle"]_vars

\* C8: after a rebuild has failed, every file under the destination has the
\* content the last successful build gave it.
EmptyDest == [f \in Files |-> NoFile]

C8_FailedBuildLeavesLastGoodOutput ==
  (lastResult = "err" /\ bpc = "none" /\ lastGood # EmptyDest) => dest = lastGood

\* C8, amended: every output file that no build has written since the last
\* successful build returned has the content that build left there; the
\* files a failed build wrote before its error keep what it wrote.
C8_UnwrittenFilesKeepLastGoodOutput ==
  \A f \in Files \ dirty : dest[f] = lastGood[f]

\* a build that followed a successful one has failed after it had written
\* new content to some of the output files
C8_Witness ==
  /\ lastResult = "err"
  /\ bpc = "none"
  /\ lastGood # EmptyDest
  /\ dirty # {}
  /\ dirty # Files
  /\ dest # lastGood

\* C9: a qualifying event that waits in the channel, also one that arrived
\* while a rebuild was running, is eventually followed by the start of a
\* rebuild.
C9_QueuedEventLeadsToRebuild ==
  \A n \in 0..MaxEvents : (chan > 0 /\ nRebuilds = n) ~> (nRebuilds > n)

\* C10: build() runs its steps in the order mkdir, posts, drafts, sort,
\* pages, assets, render posts, render pages: the drafts are appended after
\* the posts, nothing is written before every post and page is scanned, and
\* every item is rendered against the complete, sorted Site.
BuildOrder ==
  <<"mkdir", "posts", "drafts", "sort", "pages", "static", "render_posts", "render_pages">>

Done(step) == \E i \in 1..Len(steps) : steps[i] = step

SitePostFiles == {site.posts[i].id : i \in 1..Len(site.posts)}
SitePageFiles == {site.pages[i].id : i \in 1..Len(site.pages)}

PublishedPosts ==
  {f \in PostFiles \cup (IF include_drafts THEN DraftFiles ELSE {}) :
     src[f].present /\ src[f].published}

C10_BuildStepOrder ==
  bpc # "none" =>
    /\ Len(steps) <= Len(BuildOrder)
    /\ steps = SubSeq(BuildOrder, 1, Len(steps))
    /\ bpc \notin {"err", "overflow"} => bpc = (BuildOrder \o <<"ok">>)[Len(steps) + 1]
    /\ (Done("drafts") /\ ~Done("sort")) =>
         \A i, j \in 1..Len(site.posts) :
           (site.posts[i].id \in DraftFiles /\ site.posts[j].id \in PostFiles) => j < i
    /\ written # {} =>
         /\ Done("posts") /\ Done("drafts") /\ Done("sort") /\ Done("pages")
         /\ SitePostFiles = PublishedPosts
         /\ Len(site.posts) = Cardinality(PublishedPosts)
         /\ SitePageFiles = Present(PageFiles)
         /\ \A i, j \in 1..Len(site.posts) : i < j => site.posts[i].date >= site.posts[j].date
    /\ \A f \in written \ AssetFiles :
         /\ Done("static")
         /\ dest[f].posts = Ids(site.posts)
    /\ \A f \in written \cap PageFiles : Done("render_posts")

\* a build with drafts enabled has run to its end and has rendered two
\* posts, a draft and a page and copied an asset
C10_Witness ==
  /\ bpc = "ok"
  /\ include_drafts
  /\ Len(site.posts) = 3
  /\ written = Files

\* C11: build() is fail-fast: a step that does not complete ends the build
\* with an error; the failing step and everything after it write nothing,
\* scan nothing and complete no further step, so the files written before
\* the error stay as they are; the error is what the caller receives.
C11_FailFastNoRollback ==
  [][/\ (bpc \in FailableSteps /\ bpc' # bpc /\ steps' = steps) => bpc' = "err"
     /\ (bpc' = "err" /\ bpc # "err") =>
          (dest' = dest /\ written' = written /\ site' = site /\ steps' = steps)
     /\ bpc = "err" =>
          /\ bpc' \in {"err", "none"}
          /\ dest' = dest /\ written' = written /\ site' = site /\ steps' = steps
          /\ bpc' = "none" => lastResult' = "err"]_vars

\* a build has failed while it rendered the pages, after it had copied the
\* asset and written a post
C11_Witness ==
  /\ bpc = "err"
  /\ Len(steps) = 7
  /\ {"a1", "p1"} \subseteq written
  /\ "g1" \notin written
  /\ dest["p1"] # NoFile

\* C12: a post whose front matter says published: false, in _posts or in
\* _drafts, is never in the Site's post list, is never rendered to an output
\* file, and is in no post list that a template was given.
C12_UnpublishedNeverInSite ==
  /\ \A i \in 1..Len(site.posts) : src[site.posts[i].id].published
  /\ \A f \in PostFiles \cup DraftFiles : ~src[f].published => dest[f] = NoFile
  /\ \A g \in Files : \A i \in 1..Len(dest[g].posts) : src[dest[g].posts[i]].published

\* a build with drafts enabled has ended well on a tree whose newest post
\* and whose draft are unpublished
C12_Witness ==
  /\ bpc = "ok"
  /\ include_drafts
  /\ ~src["p2"].published
  /\ ~src["d1"].published
  /\ src["p1"].published
  /\ Ids(site.posts) = <<"p1">>
  /\ dest["g1"].posts = <<"p1">>

\* C13: when rendering starts the post list is sorted by date, newest
\* first, and holds each scanned published post once; the sort only
\* reorders the scanned list, and two posts of the same date stay in the
\* order in which they were scanned.
PosOf(list, id) == CHOOSE i \in 1..Len(list) : list[i].id = id

C13_PostsSortedByDateDescending ==
  /\ [](bpc \in {"render_posts", "render_pages"} =>
          /\ \A i, j \in 1..Len(site.posts) :
                i < j => site.posts[i].date >= site.posts[j].date
          /\ SitePostFiles = PublishedPosts
          /\ Len(site.posts) = Cardinality(PublishedPosts))
  /\ [][(bpc = "sort" /\ bpc' = "pages") =>
          /\ Len(site'.posts) = Len(site.posts)
          /\ {site'.posts[i] : i \in 1..Len(site'.posts)} =
               {site.posts[i] : i \in 1..Len(site.posts)}
          /\ \A i, j \in 1..Len(site.posts) :
                (i < j /\ site.posts[i].date = site.posts[j].date) =>
                   PosOf(site'.posts, site.posts[i].id) < PosOf(site'.posts, site.posts[j].id)]_vars

\* rendering has started on three posts scanned oldest first, two of them
\* of the same date: the newest come first, in their scan order
C13_Witness ==
  /\ bpc = "render_posts"
  /\ idx = 1
  /\ include_drafts
  /\ Ids(site.posts) = <<"p2", "d1", "p1">>

\* C14: no file under the destination is ever classified as a Page,
\* wherever the destination lies: every Page of every build comes from a
\* source file, so that two builds of an unchanged tree find the same pages.
C14_NoOutputScannedAsPage ==
  \A i \in 1..Len(site.pages) : ~IsGenerated(site.pages[i])

\* C15: the url a post or a page is given is never empty, whatever the
\* permalink of its front matter, its file name and the configured pattern.
C15_ResolvedUrlNonEmpty ==
  ret.fn \in {"generate_post_url", "generate_page_url"} => Len(ret.url) > 0

\* C16: a cycle in the parent-layout names ends the rendering with an
\* error: render_with_layout returns for every set of layout files.
C16_LayoutCycleTerminates ==
  ret.fn = "render_with_layout" => ret.out # Overflow

\* C17: when the parent names that start at the item's layout ("default"
\* when it names none) form no cycle, the output is the item's content
\* wrapped in exactly the layouts of that chain, in chain order, each once;
\* the chain ends at the first layout without a parent or at the first
\* missing file, and a missing file leaves the content of that point as it is.
LayoutChains(start) ==
  {c \in Strs(LayoutNames, Cardinality(LayoutNames)) :
     /\ (Len(c) = 0) <=> (layouts[start] = "absent")
     /\ Len(c) > 0 => c[1] = start
     /\ \A i \in 1..Len(c) : layouts[c[i]] # "absent"
     /\ \A i \in 1..(Len(c) - 1) : layouts[c[i]] = c[i + 1]
     /\ \A i, j \in 1..Len(c) : c[i] = c[j] => i = j
     /\ Len(c) > 0 =>
          LET last == c[Len(c)]
          IN  \/ layouts[last] = "none"
              \/ layouts[last] \in LayoutNames /\ layouts[layouts[last]] = "absent"}

C17_LayoutChainAppliedInOrder ==
  ret.fn = "render_with_layout" =>
    \A c \in LayoutChains(layout_name(arg)) : ret.out = c

\* an item that names the layout post, whose parent is base, whose parent
\* default is missing: post and base are applied, in that order
C17_Witness ==
  /\ ret.fn = "render_with_layout"
  /\ arg.layout = <<"post">>
  /\ layouts = [l \in LayoutNames |->
                  IF l = "post" THEN "base" ELSE IF l = "base" THEN "default" ELSE "absent"]
  /\ ret.out = <<"post", "base">>

\* C18: every 200 response to a GET of an html file of the destination
\* carries the polling script: before the closing body tag when the file
\* has one, at the end otherwise.
C18_HtmlResponseCarriesScript ==
  (resp.status = 200 /\ resp.html) =>
     /\ \E i \in 1..Len(resp.body) : resp.body[i] = "<script>"
     /\ LET pos == rfind(resp.body, "</body>")
        IN  IF pos > 0 THEN resp.body[pos - 1] = "<script>"
            ELSE resp.body[Len(resp.body)] = "<script>"

\* C19: a build that scans a post, a draft (when drafts are enabled) or a
\* page whose metadata block is malformed never ends well; the file is
\* never made a Post or a Page, and the build copies and renders nothing.
ScannedFiles ==
  Present(PostFiles) \cup (IF include_drafts THEN Present(DraftFiles) ELSE {})
    \cup Present(PageFiles)

C19_MalformedMetadataFailsBuild ==
  /\ (SitePostFiles \cup SitePageFiles) \cap malformed = {}
  /\ (ScannedFiles \cap malformed # {}) =>
       /\ bpc # "ok"
       /\ lastResult # "ok"
       /\ dest = EmptyDest
       /\ written = {}
       /\ ~Done("pages")

\* a build of a tree whose page is malformed has scanned and sorted the
\* three posts, has failed, and has written nothing
C19_Witness ==
  /\ malformed = {"g1"}
  /\ lastResult = "err"
  /\ bpc = "none"
  /\ steps = <<"mkdir", "posts", "drafts", "sort">>
  /\ Len(site.posts) = 3
  /\ dest = EmptyDest

\* C20: a text that does not begin with a delimiter line, or that begins
\* with one and has no later delimiter line, is returned whole as the body,
\* with default metadata and without an error.  A delimiter line is a line
\* that holds the three dashes and nothing else but blanks; blank lines
\* before the first line of the text are passed over.
RECURSIVE LinesOf(_)
LinesOf(text) ==
  IF \A i \in 1..Len(text) : text[i] # "n" THEN <<text>>
  ELSE LET k == CHOOSE i \in 1..Len(text) :
                  text[i] = "n" /\ \A j \in 1..(i - 1) : text[j] # "n"
       IN  <<SubSeq(text, 1, k - 1)>> \o LinesOf(SubSeq(text, k + 1, Len(text)))

IsDelimiterLine(line) == trim(line) = <<"---">>

HasOpeningDelimiter(text) == IsDelimiterLine(LinesOf(trim(text))[1])

HasClosingDelimiter(text) ==
  \E i \in 2..Len(LinesOf(trim(text))) : IsDelimiterLine(LinesOf(trim(text))[i])

C20_UndelimitedTextIsBody ==
  (ret.fn = "parse_front_matter" /\
   (~HasOpeningDelimiter(arg.text) \/ ~HasClosingDelimiter(arg.text))) =>
     (ret.result = "default" /\ ret.body = arg.text)

\* C21: when the text begins with a delimiter line and has a later one, the
\* block is closed by the first later delimiter line: the metadata is parsed
\* from the lines between the two, and the body is what follows the closing
\* line.  Only lines that are exactly the three dashes count as delimiter
\* lines here, and blanks at the two ends of the metadata text and of the
\* body are not compared.
RECURSIVE JoinLines(_)
JoinLines(lines) ==
  IF Len(lines) = 0 THEN <<>>
  ELSE IF Len(lines) = 1 THEN lines[1]
  ELSE lines[1] \o <<"n">> \o JoinLines(Tail(lines))

DelimiterAlone(line) == line = <<"---">>

ClosingLines(text) ==
  {k \in 2..Len(LinesOf(text)) :
     /\ DelimiterAlone(LinesOf(text)[k])
     /\ \A j \in 2..(k - 1) : ~DelimiterAlone(LinesOf(text)[j])}

DelimitedBlock(text) ==
  /\ Len(text) > 0
  /\ DelimiterAlone(LinesOf(text)[1])
  /\ ClosingLines(text) # {}

C21_ClosedByNextDelimiterLine ==
  (ret.fn = "parse_front_matter" /\ DelimitedBlock(arg.text)) =>
    LET lines == LinesOf(arg.text)
        k == CHOOSE c \in ClosingLines(arg.text) : TRUE
    IN  /\ ret.result # "default"
        /\ trim(ret.yaml) = trim(JoinLines(SubSeq(lines, 2, k - 1)))
        /\ ret.result = "parsed" =>
             trim(ret.body) = trim(JoinLines(SubSeq(lines, k + 1, Len(lines))))

\* ------------------------------------------------------------------------
\* Builds under exclude lists that name files of the source tree
\* ------------------------------------------------------------------------
ExcludeLists ==
  {<<>>, <<<<"g1">>>>, <<<<"a1">>>>, <<<<"p1">>, <<"d1">>>>,
   <<<<"p1">>, <<"d1">>, <<"g1">>, <<"a1">>>>}

InitExclude ==
  /\ mode = "build"
  /\ source = <<"site">>
  /\ destination = DestinationOf(source)
  /\ src = ServeSource
  /\ layouts = [l \in LayoutNames |-> IF l = "default" THEN "none" ELSE "absent"]
  /\ diskConfig = 1
  /\ serverConfig = 1
  /\ \E X \in ExcludeLists : exclude = default_exclude \o X
  /\ include = <<>>
  /\ permalink = OwnUrl
  /\ dest = [f \in Files |-> NoFile]
  /\ malformed = {}
  /\ nested = {}
  /\ bpc = "none"
  /\ builderConfig = 1
  /\ include_drafts \in BOOLEAN
  /\ site = [posts |-> <<>>, pages |-> <<>>]
  /\ idx = 1
  /\ written = {}
  /\ steps = <<>>
  /\ lastResult = "none"
  /\ lastGood = [f \in Files |-> NoFile]
  /\ dirty = {}
  /\ nBuilds = 0
  /\ InitLoop
  /\ InitFlag
  /\ InitCall

NextBuilds ==
  \/ BuildStart
  \/ BuildStep
  \/ BuildReturn

SpecExclude == InitExclude /\ [][NextBuilds]_vars

\* C22: when a build has finished, a page or a static asset whose path is
\* excluded is not among its pages and has not been written to the
\* destination, while every published post, and every published draft when
\* drafts are on, is among its posts whether or not its path is excluded.
C22_ExclusionAppliesToPagesAndAssetsOnly ==
  bpc = "ok" =>
    /\ \A f \in Present(PageFiles) :
         is_excluded(SourcePath(f)) => f \notin SitePageFiles /\ f \notin written
    /\ \A a \in Present(AssetFiles) :
         is_excluded(SourcePath(a)) => a \notin written
    /\ \A p \in Present(PostFiles) \cup (IF include_drafts THEN Present(DraftFiles) ELSE {}) :
         src[p].published => p \in SitePostFiles

\* ------------------------------------------------------------------------
\* Config::is_excluded as a function of the path and the two lists
\* ------------------------------------------------------------------------
PathTokens == {"/", "x"}

\* the patterns of the lists: the empty one, one token, two tokens
Patterns == {<<>>, <<"/">>, <<"x">>, <<"x", "/">>}

PatternLists == Strs(Patterns, MaxListLen)

\* the paths of test_exclusion, with the lists of Config::default()
ExamplePaths ==
  {<<"node_modules", "/", "x.js">>, <<"_site", "/", "index.html">>,
   <<"_posts", "/", "hello.md">>}

ExcludedInputs ==
  {[fn |-> "is_excluded", path |-> p, include |-> i, exclude |-> x] :
     p \in Strs(PathTokens, MaxPathLen), i \in PatternLists, x \in PatternLists}
  \cup {[fn |-> "is_excluded", path |-> p, include |-> <<>>, exclude |-> default_exclude] :
          p \in ExamplePaths}

InitExcluded == InitLibrary /\ layouts = DefaultLayouts /\ arg \in ExcludedInputs

\* config.is_excluded(path)
IsExcluded ==
  /\ arg.fn = "is_excluded"
  /\ ret = NoCall
  /\ ret' = [fn |-> arg.fn, excluded |-> is_excluded_in(arg.path, arg.include, arg.exclude)]
  /\ UNCHANGED <<arg, libraryKeep>>

NextExcluded == IsExcluded

SpecExcluded == InitExcluded /\ [][NextExcluded]_vars

\* C23: is_excluded answers true exactly when some exclude pattern occurs in
\* the path and no include pattern does; with the default lists the two
\* paths under node_modules and _site are excluded and the one under _posts
\* is not.
Occurs(pat, path) ==
  \E i \in 0..Len(path) : \E j \in i..Len(path) : SubSeq(path, i + 1, j) = pat

C23_ExcludedIffExcludeAndNoInclude ==
  ret.fn = "is_excluded" =>
    /\ ret.excluded <=>
         /\ \E i \in 1..Len(arg.exclude) : Occurs(arg.exclude[i], arg.path)
         /\ \A i \in 1..Len(arg.include) : ~Occurs(arg.include[i], arg.path)
    /\ (arg.include = <<>> /\ arg.exclude = default_exclude) =>
         /\ arg.path \in {<<"node_modules", "/", "x.js">>, <<"_site", "/", "index.html">>}
              => ret.excluded
         /\ arg.path = <<"_posts", "/", "hello.md">> => ~ret.excluded

\* a path in which an include pattern and an exclude pattern both occur
C23_Witness ==
  /\ ret.fn = "is_excluded"
  /\ ~ret.excluded
  /\ arg.path = <<"x", "/", "x">>
  /\ arg.exclude = <<<<"x">>, <<"/">>>>
  /\ arg.include = <<<<"x", "/">>>>

\* ------------------------------------------------------------------------
\* Post::parse_date_from_filename on file names given by their segments
\* ------------------------------------------------------------------------
\* a file name is the sequence of the pieces that split('-') cuts it into
SegmentTokens == {"2023", "2024", "02", "12", "29", "31", "x", "t.md"}

None == <<>>
Some(v) == <<v>>

\* str::parse of a segment: the number it spells, or None
parse_int(segment) ==
  CASE segment = "2023" -> Some(2023)
    [] segment = "2024" -> Some(2024)
    [] segment = "02" -> Some(2)
    [] segment = "12" -> Some(12)
    [] segment = "29" -> Some(29)
    [] segment = "31" -> Some(31)
    [] OTHER -> None

is_leap_year(year) == year % 4 = 0 /\ (year % 100 # 0 \/ year % 400 = 0)

days_in_month(year, month) ==
  IF month = 2 THEN (IF is_leap_year(year) THEN 29 ELSE 28)
  ELSE IF month \in {4, 6, 9, 11} THEN 30 ELSE 31

\* a constructor that takes any three numbers for a date
with_ymd_and_hms_anyNumbers(year, month, day) == Some([year |-> year, month |-> month, day |-> day])

\* Utc.with_ymd_and_hms(year, month, day, 0, 0, 0).single()
with_ymd_and_hms(year, month, day) ==
  IF month \in 1..12 /\ day \in 1..days_in_month(year, month)
  THEN Some([year |-> year, month |-> month, day |-> day])
  ELSE None

\* Post::parse_date_from_filename for the file name with these segments
parse_date_from_parts(parts) ==
  IF Len(parts) < 4 THEN None
  ELSE IF parse_int(parts[1]) = None \/ parse_int(parts[2]) = None \/ parse_int(parts[3]) = None
       THEN None
  ELSE with_ymd_and_hms(parse_int(parts[1])[1], parse_int(parts[2])[1], parse_int(parts[3])[1])

DateInputs ==
  {[fn |-> "parse_date_from_filename", parts |-> p] : p \in Strs(SegmentTokens, MaxSegments) \ {<<>>}}

InitDate == InitLibrary /\ layouts = DefaultLayouts /\ arg \in DateInputs

\* process_posts: Post::new(path) takes the current time for the date, and
\* the date of the file name replaces it when there is one
PostDate ==
  /\ arg.fn = "parse_date_from_filename"
  /\ ret = NoCall
  /\ LET date == parse_date_from_parts(arg.parts)
     IN  ret' = [fn |-> arg.fn, date |-> date,
                 post_date |-> IF date # None THEN date[1] ELSE "now",
                 result |-> "ok"]
  /\ UNCHANGED <<arg, libraryKeep>>

NextDate == PostDate

SpecDate == InitDate /\ [][NextDate]_vars

\* C24: the date of a file name is the year, month and day its first three
\* segments spell when it has at least four segments and the three spell a
\* date of the calendar; any other file name has no date, and its post keeps
\* the time of the build and is processed without an error.
Numeral(segment) ==
  CASE segment \in {"2023", "2024"} -> IF segment = "2023" THEN 2023 ELSE 2024
    [] segment \in {"02", "12"} -> IF segment = "02" THEN 2 ELSE 12
    [] segment \in {"29", "31"} -> IF segment = "29" THEN 29 ELSE 31
    [] OTHER -> -1

CalendarDates ==
  {d \in [year : {2, 12, 29, 31, 2023, 2024}, month : 1..12, day : 1..31] :
     /\ d.month \in {4, 6, 9, 11} => d.day <= 30
     /\ d.month = 2 => d.day <= 29
     /\ (d.month = 2 /\ d.day = 29) => d.year \in {12, 2024}}

SpelledDate(parts) ==
  [year |-> Numeral(parts[1]), month |-> Numeral(parts[2]), day |-> Numeral(parts[3])]

C24_WitnessNoDate ==
  /\ ret.fn = "parse_date_from_filename"
  /\ arg.parts = <<"2023", "02", "29", "t.md">>
  /\ ret.post_date = "now"

\* ------------------------------------------------------------------------
\* inject_reload_script on HTML texts
\* ------------------------------------------------------------------------
\* a text is a sequence of pieces: a script element, a closing body tag,
\* anything else; the polling script is itself a script element
HtmlTokens == {"<script>", "</body>", "x"}

InjectInputs == {[fn |-> "inject_reload_script", html |-> h] : h \in Strs(HtmlTokens, MaxHtmlLen)}

InitInject == InitLibrary /\ layouts = DefaultLayouts /\ arg \in InjectInputs

\* serve_static: let content = inject_reload_script(&content)
InjectReloadScript ==
  /\ arg.fn = "inject_reload_script"
  /\ ret = NoCall
  /\ ret' = [fn |-> arg.fn, html |-> inject_reload_script(arg.html)]
  /\ UNCHANGED <<arg, libraryKeep>>

NextInject == InjectReloadScript

SpecInject == InitInject /\ [][NextInject]_vars

\* C25: the result is the text with one script put in and nothing else
\* changed, so that taking the script out again gives the text back; when
\* the text has a closing body tag the script stands directly before the
\* closing tag that ends the body, the last one, and the first script of the
\* result comes before that tag; when it has none the script is the last
\* piece of the result.
Without(s, k) == SubSeq(s, 1, k - 1) \o SubSeq(s, k + 1, Len(s))

Positions(s, token) == {i \in 1..Len(s) : s[i] = token}

C25_ScriptInsertedOnceBeforeClosingBody ==
  ret.fn = "inject_reload_script" =>
    /\ Len(ret.html) = Len(arg.html) + 1
    /\ \E k \in Positions(ret.html, "<script>") :
         /\ Without(ret.html, k) = arg.html
         /\ IF Positions(arg.html, "</body>") # {}
            THEN /\ k < Len(ret.html)
                 /\ ret.html[k + 1] = "</body>"
                 /\ \A j \in Positions(ret.html, "</body>") : j <= k + 1
                 /\ \E i \in Positions(ret.html, "<script>") :
                      /\ \A j \in Positions(ret.html, "<script>") : i <= j
                      /\ i < k + 1
            ELSE k = Len(ret.html)

\* a text with a script element after its closing body tag
C25_Witness ==
  /\ ret.fn = "inject_reload_script"
  /\ arg.html = <<"x", "</body>", "<script>">>
  /\ ret.html = <<"x", "<script>", "</body>", "<script>">>

\* a text with no closing body tag
C25_WitnessAppended ==
  /\ ret.fn = "inject_reload_script"
  /\ arg.html = <<"x", "x">>
  /\ ret.html = <<"x", "x", "<script>">>

\* ------------------------------------------------------------------------
\* Builds of a source tree in which items have the same URL
\* ------------------------------------------------------------------------
\* the page has the URL of the older post; the newer post has it; the draft
\* has the URL of the newer post; all of them have the URL of the older post
Permalinks ==
  {[OwnUrl EXCEPT !["g1"] = "p1"], [OwnUrl EXCEPT !["p2"] = "p1"],
   [OwnUrl EXCEPT !["d1"] = "p2"],
   [OwnUrl EXCEPT !["g1"] = "p1", !["p2"] = "p1", !["d1"] = "p1"]}

InitCollide ==
  /\ mode = "build"
  /\ source = <<"site">>
  /\ destination = DestinationOf(source)
  /\ src = ServeSource
  /\ layouts = [l \in LayoutNames |-> IF l = "default" THEN "none" ELSE "absent"]
  /\ diskConfig = 1
  /\ serverConfig = 1
  /\ exclude = default_exclude
  /\ include = <<>>
  /\ permalink \in Permalinks
  /\ dest = [f \in Files |-> NoFile]
  /\ malformed = {}
  /\ nested = {}
  /\ bpc = "none"
  /\ builderConfig = 1
  /\ include_drafts \in BOOLEAN
  /\ site = [posts |-> <<>>, pages |-> <<>>]
  /\ idx = 1
  /\ written = {}
  /\ steps = <<>>
  /\ lastResult = "none"
  /\ lastGood = [f \in Files |-> NoFile]
  /\ dirty = {}
  /\ nBuilds = 0
  /\ InitLoop
  /\ InitFlag
  /\ InitCall

SpecCollide == InitCollide /\ [][NextBuilds]_vars

\* C26: when a build has finished, every output that some item's URL names
\* holds the item that comes last among them in the order of writing: the
\* posts in their sorted order, then the pages in the order of the scan.  A
\* page with the URL of a post is the one the file holds.
RenderOrder == Ids(site.posts) \o Ids(site.pages)

WritersOf(u) == {i \in 1..Len(RenderOrder) : permalink[RenderOrder[i]] = u}

C26_LastWrittenItemHoldsTheUrl ==
  bpc = "ok" =>
    /\ \A u \in Files \ AssetFiles :
         IF WritersOf(u) = {} THEN dest[u] = NoFile
         ELSE \E i \in WritersOf(u) :
                /\ \A j \in WritersOf(u) : j <= i
                /\ dest[u].item = RenderOrder[i]
    /\ \A p \in SitePostFiles, g \in SitePageFiles :
         permalink[g] = permalink[p] => dest[permalink[p]].item = g

\* a build has finished in which the page has the URL of a post of the site
C26_Witness ==
  /\ bpc = "ok"
  /\ "p1" \in SitePostFiles
  /\ "g1" \in SitePageFiles
  /\ permalink["g1"] = "p1"
  /\ permalink["p1"] = "p1"
  /\ dest["p1"].item = "g1"

\* C27: a poll answers "reload" only when the rebuild of the batch that set
\* the flag it reads has returned: as many rebuilds have been started and
\* have ended as the flag has been set.
C27_ReloadAnsweredAfterRebuild ==
  [][nReload' > nReload => nRebuilds - running >= nSets]_vars

\* ------------------------------------------------------------------------
\* The path an item is written to and the path its URL is resolved to
\* ------------------------------------------------------------------------
\* Path::components of a relative path string: the pieces between the
\* slashes, none of them empty; a PathBuf is compared by its components
RECURSIVE Components(_)
Components(s) ==
  IF Len(s) = 0 THEN <<>>
  ELSE IF s[1] = "/" THEN Components(Tail(s))
  ELSE LET n == IF \E i \in 1..Len(s) : s[i] = "/"
                THEN (CHOOSE i \in 1..Len(s) : s[i] = "/" /\ \A j \in 1..(i - 1) : s[j] # "/") - 1
                ELSE Len(s)
       IN  <<SubSeq(s, 1, n)>> \o Components(SubSeq(s, n + 1, Len(s)))

DestinationPath == [i \in 1..Len(destination) |-> <<destination[i]>>]

\* render_posts / render_pages: self.destination.join(url.trim_start_matches('/'))
output_path(dir, url) == dir \o Components(trim_start_matches(url, "/"))

\* resolve_file_path(destination, uri_path)
resolve_file_path(dir, uri_path) ==
  LET path == trim_start_matches(uri_path, "/")
  IN  IF Len(path) = 0 \/ path[Len(path)] = "/"
      THEN dir \o Components(path) \o <<<<"index.html">>>>
      ELSE dir \o Components(path)

\* Config::default().permalink
default_permalink == <<"/", ":year", "/", ":month", "/", ":day", "/", ":title", "/">>

ResolveInputs ==
  UrlInputs \cup
  [fn : {"generate_post_url"}, permalink : {<<>>}, stem : PostStems, pattern : {default_permalink}]

InitResolve == InitLibrary /\ layouts = DefaultLayouts /\ arg \in ResolveInputs

\* the url of the item and the path render_posts / render_pages writes it to
RenderPath ==
  /\ ret = NoCall
  /\ LET url == IF arg.fn = "generate_post_url" THEN generate_post_url(arg, arg.pattern)
                ELSE generate_page_url(arg)
     IN  ret' = [fn |-> "output_path", url |-> url, output |-> output_path(DestinationPath, url)]
  /\ UNCHANGED <<arg, libraryKeep>>

\* serve_static for a request of that url
ResolveFilePath ==
  /\ ret.fn = "output_path"
  /\ ret' = [fn |-> "resolve_file_path", url |-> ret.url, output |-> ret.output,
             path |-> resolve_file_path(DestinationPath, ret.url)]
  /\ UNCHANGED <<arg, libraryKeep>>

NextResolve ==
  \/ RenderPath
  \/ ResolveFilePath

SpecResolve == InitResolve /\ [][NextResolve]_vars

\* C28: the path a request of an item's URL is resolved to is the path the
\* build writes the item to, for every URL a post or a page is given.
C28_ResolvedPathIsOutputPath ==
  ret.fn = "resolve_file_path" => ret.path = ret.output

\* ------------------------------------------------------------------------
\* `build --watch`: watch_and_rebuild
\* ------------------------------------------------------------------------
\* rx.recv().await returns an event: Config::load(&source), SiteBuilder::new,
\* set_include_drafts, and build() is entered
WatchRecv ==
  /\ mode = "watch"
  /\ Alive
  /\ pc = "Idle"
  /\ chan > 0
  /\ chan' = chan - 1
  /\ pc' = "Rebuilding"
  /\ builderConfig' = diskConfig
  /\ bpc' = "mkdir"
  /\ written' = {}
  /\ steps' = <<>>
  /\ idx' = 1
  /\ UNCHANGED <<fsVars, include_drafts, site, lastResult, lastGood, dirty, nBuilds,
                 closed, timer, quiet, sent, lastEvt, running, nRebuilds, flagVars,
                 setupVars, callVars>>

\* build() has returned: the result is printed and the loop goes back to recv
WatchRebuilt ==
  /\ mode = "watch"
  /\ pc = "Rebuilding"
  /\ Returned
  /\ pc' = "Idle"
  /\ UNCHANGED <<fsVars, builderConfig, include_drafts, site, idx, written, steps, nBuilds,
                 chan, closed, timer, quiet, sent, lastEvt, running, nRebuilds, flagVars,
                 setupVars, callVars>>

\* the state when execute() has built the site once and has set up the watcher
InitBuildWatch ==
  /\ mode = "watch"
  /\ source = <<"site">>
  /\ destination \in {<<"site", "_site">>, <<"out">>}
  /\ src = ServeSource
  /\ layouts = [l \in LayoutNames |-> IF l = "default" THEN "none" ELSE "absent"]
  /\ diskConfig = 1
  /\ serverConfig = 1
  /\ exclude = default_exclude
  /\ include = <<>>
  /\ permalink = OwnUrl
  /\ dest = ServeOutput
  /\ malformed = {}
  /\ nested = {}
  /\ bpc = "none"
  /\ builderConfig = 1
  /\ include_drafts = FALSE
  /\ site = [posts |-> <<>>, pages |-> <<>>]
  /\ idx = 1
  /\ written = {}
  /\ steps = <<>>
  /\ lastResult = "ok"
  /\ lastGood = ServeOutput
  /\ dirty = {}
  /\ nBuilds = 0
  /\ InitLoop
  /\ InitFlag
  /\ InitCall

WatchStep ==
  \/ WatchRecv
  \/ BuildStep
  \/ WatchRebuilt

NextBuildWatch ==
  \/ EditFile("g1")
  \/ WatchStep

SpecBuildWatch == InitBuildWatch /\ [][NextBuildWatch]_vars

FairSpecBuildWatch == SpecBuildWatch /\ WF_vars(WatchStep)

\* C29: the watch loop comes to rest: from some point on it waits in recv
\* with an empty channel, wherever the destination lies.
C29_WatchLoopComesToRest == <>[](pc = "Idle" /\ chan = 0)

\* ------------------------------------------------------------------------
\* Builds into the same destination while source files go away
\* ------------------------------------------------------------------------
\* a source file is deleted, or renamed to a name the model does not track
RemoveFile(f) ==
  /\ EditAllowed
  /\ src[f].present
  /\ src' = [src EXCEPT ![f] = Absent]
  /\ Callback([kind |-> "remove", paths |-> {[raw |-> source \o <<f>>, exists |-> FALSE]}])
  /\ UNCHANGED <<layouts, diskConfig, dest, envKeep>>

\* the front matter of a post is saved with published: false
Unpublish(f) ==
  /\ EditAllowed
  /\ src[f].present
  /\ src[f].published
  /\ src' = [src EXCEPT ![f].published = FALSE]
  /\ Callback([kind |-> "modify", paths |-> {SrcPath(f)}])
  /\ UNCHANGED <<layouts, diskConfig, dest, envKeep>>

NextStale ==
  \/ \E f \in {"p1", "g1", "a1"} : RemoveFile(f)
  \/ Unpublish("p2")
  \/ NextBuilds

SpecStale == InitBuild /\ [][NextStale]_vars

\* C30: when a build has ended well, the files under the destination are
\* the outputs of the posts and pages of its Site and the copies of the
\* assets that the source tree has, and no others.
C30_DestinationHoldsCurrentOutputsOnly ==
  bpc = "ok" =>
    {f \in Files : dest[f] # NoFile} =
      {permalink[f] : f \in SitePostFiles \cup SitePageFiles} \cup Present(AssetFiles)

====
